---- MODULE Spec2Model ----
(***************************************************************************)
(* A model of maxcalorie.hh: filter_food_vector, sum_food_vector,          *)
(* exhaustive_max_calories and dynamic_max_calories.                       *)
(*                                                                         *)
(* A FoodItem is a record; its description stands for the identity of the  *)
(* shared_ptr that the vectors hold.  Weights, calories and capacities are *)
(* integers (the claims are about the integer-weight case).  A FoodVector  *)
(* is a sequence of FoodItems; C++ index k is TLA+ index k+1.              *)
(*                                                                         *)
(* Three specifications share the variables:                               *)
(*   Spec         one call of exhaustive_max_calories followed by one call *)
(*                of dynamic_max_calories on the same foods/total_weight   *)
(*   SpecFilter   one call of filter_food_vector                           *)
(*   SpecBitSize  the prologue of exhaustive_max_calories (the assert and  *)
(*                the computation of bitSize) for vectors of up to         *)
(*                MaxBigFoods items                                        *)
(***************************************************************************)
EXTENDS Integers, Sequences, FiniteSets

VARIABLES
  pc,                 \* position of the running call
  foods,              \* argument of both solvers
  total_weight,       \* argument of both solvers (the capacity)
  n,                  \* exhaustive: const int n = foods.size()
  bitSize,            \* exhaustive: int bitSize
  bit,                \* exhaustive: loop variable of the mask loop
  bestTotalCalries,   \* exhaustive: best calories so far
  BestFoodVector,     \* exhaustive: *BestFoodVector
  T,                  \* dynamic: the DP table (sequence of rows)
  i,                  \* dynamic: loop variable of the row loop / traceback
  step,               \* dynamic: traceback column
  best,               \* dynamic: *best
  oob,                \* dynamic: a vector was indexed outside its bounds
  source,             \* filter: argument
  min_calories,       \* filter: argument
  max_calories,       \* filter: argument
  total_size,         \* filter: argument
  FilteredFoodVector, \* filter: *FilteredFoodVector
  scanned,            \* filter: number of source items the loop has visited
  filtered            \* filter: the returned unique_ptr

vars == << pc, foods, total_weight, n, bitSize, bit, bestTotalCalries,
           BestFoodVector, T, i, step, best, oob, source, min_calories,
           max_calories, total_size, FilteredFoodVector, scanned, filtered >>

solverVars == << foods, total_weight, n, bitSize, bit, bestTotalCalries,
                 BestFoodVector, T, i, step, best, oob >>

filterVars == << source, min_calories, max_calories, total_size,
                 FilteredFoodVector, scanned, filtered >>

----------------------------------------------------------------------------
(* Bounds of the model.                                                    *)

MaxFoods == 3        \* longest foods vector given to the solvers
MaxWeight == 2       \* item weights are 1..MaxWeight
MaxCalories == 2     \* item calories are 0..MaxCalories
MaxCapacity == 3     \* largest total_weight
NegCapacity == 1     \* total_weight goes down to -NegCapacity
MaxBigFoods == 70    \* longest vector whose size reaches the bitSize prologue
MaxSource == 5       \* longest source vector given to the filter
MaxSize == 2         \* largest total_size
NegSize == 1         \* total_size goes down to -NegSize

(* Program constants.                                                      *)

MaskLimit == 64      \* assert(n < 64)
IntBits == 32        \* width of int (bitSize, bit)
IntMax == 2147483647
IntMin == (-2147483647) - 1

----------------------------------------------------------------------------
(* FoodItem and FoodVector.                                                *)

FoodItem(description, weight_ounces, calories) ==
  [description |-> description, weight |-> weight_ounces,
   foodCalories |-> calories]

RECURSIVE SumField(_, _)
SumField(fv, takeWeight) ==
  IF fv = << >> THEN 0
  ELSE (IF takeWeight THEN Head(fv).weight ELSE Head(fv).foodCalories)
       + SumField(Tail(fv), takeWeight)

sum_food_vector(fv) ==
  [total_weight |-> SumField(fv, TRUE), total_calories |-> SumField(fv, FALSE)]

----------------------------------------------------------------------------
(* exhaustive_max_calories                                                 *)

\* int bitSize = pow(2, foods.size()): the double 2^size converted to int.
\* The conversion is exact while 2^size <= INT_MAX, i.e. size <= IntBits - 2;
\* beyond that the conversion is undefined, and the builds in use produce
\* INT_MIN (x86 cvttsd2si) or INT_MAX (saturating conversion).
PowToInt(size) ==
  IF size <= IntBits - 2 THEN {2 ^ size} ELSE {IntMin, IntMax}

\* ((bit >> j) & 1) == 1, for bit >= 0
BitSet(mask, j) == (mask \div (2 ^ j)) % 2 = 1

\* Variants of the two tests below, as a slip in the code would write them:
\* the operands of the weight test swapped, the weight test strict, and the
\* best test non-strict.
Fits_Swapped(candTotalWeight, capacity) == capacity <= candTotalWeight
Fits_Strict(candTotalWeight, capacity) == candTotalWeight < capacity
Improves_OrEqual(candTotalCalories, bestCalories) ==
  candTotalCalories >= bestCalories

\* if (candTotalWeight <= total_weight)
Fits(candTotalWeight, capacity) == candTotalWeight <= capacity

\* if (candTotalCalories > bestTotalCalries)
Improves(candTotalCalories, bestCalories) == candTotalCalories > bestCalories

\* The loop over j for one value of bit.  st holds CandidateFoodVector,
\* candTotalWeight, candTotalCalories, bestTotalCalries and BestFoodVector;
\* the feasibility/best test runs after every j, on the candidate as built
\* so far.
RECURSIVE InnerLoop(_, _, _, _, _)
InnerLoop(fs, capacity, mask, j, st) ==
  IF j >= Len(fs) THEN st
  ELSE
    LET taken == BitSet(mask, j)
        cand  == IF taken THEN Append(st.cand, fs[j + 1]) ELSE st.cand
        cw    == IF taken THEN st.cw + fs[j + 1].weight ELSE st.cw
        cc    == IF taken THEN st.cc + fs[j + 1].foodCalories ELSE st.cc
        upd   == Fits(cw, capacity) /\ Improves(cc, st.bestCal)
    IN InnerLoop(fs, capacity, mask, j + 1,
                 [cand    |-> cand, cw |-> cw, cc |-> cc,
                  bestCal |-> IF upd THEN cc ELSE st.bestCal,
                  bestVec |-> IF upd THEN cand ELSE st.bestVec])

\* One iteration of the loop over bit: the candidate is cleared, then the
\* loop over j runs.
MaskIteration(fs, capacity, mask, bestCal, bestVec) ==
  InnerLoop(fs, capacity, mask, 0,
            [cand |-> << >>, cw |-> 0, cc |-> 0,
             bestCal |-> bestCal, bestVec |-> bestVec])

\* const int n = foods.size(); assert(n < 64);  (a build with assertions on:
\* a failed assert aborts the call)
ExhaustiveEntry ==
  /\ pc = "exh_entry"
  /\ n' = Len(foods)
  /\ pc' = IF Len(foods) < MaskLimit THEN "exh_setup" ELSE "exh_aborted"
  /\ UNCHANGED << foods, total_weight, bitSize, bit, bestTotalCalries,
                  BestFoodVector, T, i, step, best, oob >>
  /\ UNCHANGED filterVars

\* BestFoodVector, bitSize, bestTotalCalries and the loop's bit = 0
ExhaustiveSetup ==
  /\ pc = "exh_setup"
  /\ bitSize' \in PowToInt(Len(foods))
  /\ BestFoodVector' = << >>
  /\ bestTotalCalries' = 0
  /\ bit' = 0
  /\ pc' = "exh_loop"
  /\ UNCHANGED << foods, total_weight, n, T, i, step, best, oob >>
  /\ UNCHANGED filterVars

\* for (int bit = 0; bit < bitSize; bit++) { ... }: one iteration
ExhaustiveMask ==
  /\ pc = "exh_loop"
  /\ bit < bitSize
  /\ LET st == MaskIteration(foods, total_weight, bit, bestTotalCalries,
                             BestFoodVector)
     IN /\ bestTotalCalries' = st.bestCal
        /\ BestFoodVector' = st.bestVec
  /\ bit' = bit + 1
  /\ UNCHANGED << pc, foods, total_weight, n, bitSize, T, i, step, best, oob >>
  /\ UNCHANGED filterVars

\* return BestFoodVector; the caller goes on to dynamic_max_calories
ExhaustiveReturn ==
  /\ pc = "exh_loop"
  /\ ~(bit < bitSize)
  /\ pc' = "dyn_entry"
  /\ UNCHANGED solverVars
  /\ UNCHANGED filterVars

----------------------------------------------------------------------------
(* dynamic_max_calories                                                    *)

\* std::min in place of std::max
Larger_Smaller(a, b) == IF a <= b THEN a ELSE b

Larger(a, b) == IF a >= b THEN a ELSE b      \* std::max

\* T[r][c] of the code
Cell(table, r, c) == table[r + 1][c + 1]

\* whether T[r][c] is an element of the table
InTable(table, r, c) ==
  /\ r >= 0 /\ r < Len(table)
  /\ c >= 0 /\ c < Len(table[r + 1])

\* for (int init = 0; init <= total_weight; init++) Temp.push_back(0);
ZeroRow(capacity) == [c \in 1..(capacity + 1) |-> 0]

\* the fit test written strict
WeightFits_Strict(food, j) == food.weight < j

\* if (foods[i]->weight() <= j)
WeightFits(food, j) == food.weight <= j

\* The value pushed to Temp for row r + 1, column j (r is the code's i).
NewCell(table, fs, r, j) ==
  IF WeightFits(fs[r + 1], j)
  THEN Larger(fs[r + 1].foodCalories + Cell(table, r, j - fs[r + 1].weight),
              Cell(table, r, j))
  ELSE Cell(table, r, j)

\* The loop over j for one i: the row pushed to T.
NewRow(table, fs, r, capacity) ==
  [c \in 1..(capacity + 1) |-> NewCell(table, fs, r, c - 1)]

\* if (T[i][step] != T[i-1][step])
Differs(table, r, c) == Cell(table, r, c) # Cell(table, r - 1, c)

\* the traceback without the decrement of step
NextStep_Stay(c, food) == c

\* step -= foods[i-1]->weight()
NextStep(c, food) == c - food.weight

\* The first loop and T.push_back(Temp): row 0.
DynamicInit ==
  /\ pc = "dyn_entry"
  /\ T' = << ZeroRow(total_weight) >>
  /\ best' = << >>
  /\ i' = 0
  /\ pc' = "dyn_rows"
  /\ UNCHANGED << foods, total_weight, n, bitSize, bit, bestTotalCalries,
                  BestFoodVector, step, oob >>
  /\ UNCHANGED filterVars

\* for (int i = 0; i < int(foods.size()); i++) { ... }: one iteration
DynamicRow ==
  /\ pc = "dyn_rows"
  /\ i < Len(foods)
  /\ T' = Append(T, NewRow(T, foods, i, total_weight))
  /\ i' = i + 1
  /\ UNCHANGED << pc, foods, total_weight, n, bitSize, bit, bestTotalCalries,
                  BestFoodVector, step, best, oob >>
  /\ UNCHANGED filterVars

\* int step = total_weight; and the traceback loop's i = foods.size()
DynamicTraceStart ==
  /\ pc = "dyn_rows"
  /\ ~(i < Len(foods))
  /\ step' = total_weight
  /\ i' = Len(foods)
  /\ pc' = "dyn_trace"
  /\ UNCHANGED << foods, total_weight, n, bitSize, bit, bestTotalCalries,
                  BestFoodVector, T, best, oob >>
  /\ UNCHANGED filterVars

\* for (int i = foods.size(); i > 0; i--) { ... }: one iteration.  Reading
\* T[i][step] outside the row is undefined: the run may stop there, or the
\* two reads may compare either way.
DynamicTrace ==
  /\ pc = "dyn_trace"
  /\ i > 0
  /\ IF InTable(T, i, step) /\ InTable(T, i - 1, step)
     THEN /\ IF Differs(T, i, step)
             THEN /\ best' = Append(best, foods[i])
                  /\ step' = NextStep(step, foods[i])
             ELSE UNCHANGED << best, step >>
          /\ i' = i - 1
          /\ UNCHANGED << pc, oob >>
     ELSE /\ oob' = TRUE
          /\ \/ /\ pc' = "dyn_crashed"
                /\ UNCHANGED << best, step, i >>
             \/ /\ best' = Append(best, foods[i])
                /\ step' = NextStep(step, foods[i])
                /\ i' = i - 1
                /\ UNCHANGED pc
             \/ /\ i' = i - 1
                /\ UNCHANGED << pc, best, step >>
  /\ UNCHANGED << foods, total_weight, n, bitSize, bit, bestTotalCalries,
                  BestFoodVector, T >>
  /\ UNCHANGED filterVars

\* return best
DynamicReturn ==
  /\ pc = "dyn_trace"
  /\ ~(i > 0)
  /\ pc' = "done"
  /\ UNCHANGED solverVars
  /\ UNCHANGED filterVars

----------------------------------------------------------------------------
(* Spec: both solvers on the same arguments.                               *)

Weights == 1..MaxWeight
Calories == 0..MaxCalories
Capacities == (-NegCapacity)..MaxCapacity

\* The vectors of len items; item k is the k-th distinct shared_ptr.
FoodVectors(len, ws, cs) ==
  { [k \in 1..len |-> FoodItem(k, wc[k][1], wc[k][2])] :
      wc \in [1..len -> ws \X cs] }

NoFilter ==
  /\ source = << >>
  /\ min_calories = 0
  /\ max_calories = 0
  /\ total_size = 0
  /\ FilteredFoodVector = << >>
  /\ scanned = 0
  /\ filtered = [null |-> TRUE, vec |-> << >>]   \* no filter call

SolverLocals ==
  /\ n = 0
  /\ bitSize = 0
  /\ bit = 0
  /\ bestTotalCalries = 0
  /\ BestFoodVector = << >>
  /\ T = << >>
  /\ i = 0
  /\ step = 0
  /\ best = << >>
  /\ oob = FALSE

Init ==
  /\ pc = "exh_entry"
  /\ \E len \in 0..MaxFoods : foods \in FoodVectors(len, Weights, Calories)
  /\ total_weight \in Capacities
  /\ SolverLocals
  /\ NoFilter

Next ==
  \/ ExhaustiveEntry
  \/ ExhaustiveSetup
  \/ ExhaustiveMask
  \/ ExhaustiveReturn
  \/ DynamicInit
  \/ DynamicRow
  \/ DynamicTraceStart
  \/ DynamicTrace
  \/ DynamicReturn

Spec == Init /\ [][Next]_vars

----------------------------------------------------------------------------
(* SpecBitSize: the prologue of exhaustive_max_calories on long vectors.   *)

InitBitSize ==
  /\ pc = "exh_entry"
  /\ \E len \in 0..MaxBigFoods : foods = [k \in 1..len |-> FoodItem(k, 1, 0)]
  /\ total_weight = 0
  /\ SolverLocals
  /\ NoFilter

NextBitSize ==
  \/ ExhaustiveEntry
  \/ ExhaustiveSetup

SpecBitSize == InitBitSize /\ [][NextBitSize]_vars

----------------------------------------------------------------------------
(* filter_food_vector                                                      *)

\* the size check written strict
InvalidSize_Negative(size) == size < 0

\* if (total_size <= 0)
InvalidSize(size) == size <= 0

\* food->foodCalories() >= min_calories && food->foodCalories() <= max_calories
InBand(food, lo, hi) == food.foodCalories >= lo /\ food.foodCalories <= hi

\* the room test off by one
HasRoom_OffByOne(kept, size) == Len(kept) <= size

\* if (int(FilteredFoodVector->size()) < total_size)
HasRoom(kept, size) == Len(kept) < size

\* The unique_ptr returned: nullptr, or a pointer to a vector.
NullPtr == [null |-> TRUE, vec |-> << >>]
PtrTo(fv) == [null |-> FALSE, vec |-> fv]

\* The size check, then FilteredFoodVector(new FoodVector).
FilterEntry ==
  /\ pc = "flt_entry"
  /\ IF InvalidSize(total_size)
     THEN /\ filtered' = NullPtr
          /\ pc' = "flt_done"
          /\ UNCHANGED FilteredFoodVector
     ELSE /\ FilteredFoodVector' = << >>
          /\ pc' = "flt_loop"
          /\ UNCHANGED filtered
  /\ UNCHANGED << source, min_calories, max_calories, total_size, scanned >>
  /\ UNCHANGED solverVars

\* for (auto& food : source) { ... }: one iteration
FilterScan ==
  /\ pc = "flt_loop"
  /\ scanned < Len(source)
  /\ LET food == source[scanned + 1]
     IN IF InBand(food, min_calories, max_calories)
        THEN IF HasRoom(FilteredFoodVector, total_size)
             THEN /\ FilteredFoodVector' = Append(FilteredFoodVector, food)
                  /\ UNCHANGED pc
             ELSE /\ pc' = "flt_break"
                  /\ UNCHANGED FilteredFoodVector
        ELSE UNCHANGED << pc, FilteredFoodVector >>
  /\ scanned' = scanned + 1
  /\ UNCHANGED << source, min_calories, max_calories, total_size, filtered >>
  /\ UNCHANGED solverVars

\* return FilteredFoodVector, after the loop ended or broke
FilterReturn ==
  /\ \/ pc = "flt_break"
     \/ pc = "flt_loop" /\ ~(scanned < Len(source))
  /\ filtered' = PtrTo(FilteredFoodVector)
  /\ pc' = "flt_done"
  /\ UNCHANGED << source, min_calories, max_calories, total_size,
                  FilteredFoodVector, scanned >>
  /\ UNCHANGED solverVars

FilterCalories == {5, 10, 15, 50, 200}
Bands == { << 10, 100 >>, << 50, 200 >> }
Sizes == (-NegSize)..MaxSize

InitFilter ==
  /\ pc = "flt_entry"
  /\ \E len \in 0..MaxSource : source \in FoodVectors(len, {1}, FilterCalories)
  /\ \E band \in Bands : min_calories = band[1] /\ max_calories = band[2]
  /\ total_size \in Sizes
  /\ FilteredFoodVector = << >>
  /\ scanned = 0
  /\ filtered = NullPtr
  /\ foods = << >>
  /\ total_weight = 0
  /\ SolverLocals

NextFilter ==
  \/ FilterEntry
  \/ FilterScan
  \/ FilterReturn

SpecFilter == InitFilter /\ [][NextFilter]_vars

----------------------------------------------------------------------------
(* Vocabulary of the properties: subsets of a vector as sets of indices.   *)

RECURSIVE SetSum(_, _, _)
SetSum(fs, S, takeWeight) ==
  IF S = {} THEN 0
  ELSE LET k == CHOOSE x \in S : TRUE
       IN (IF takeWeight THEN fs[k].weight ELSE fs[k].foodCalories)
          + SetSum(fs, S \ {k}, takeWeight)

\* the subsets of the first m items whose total weight is at most capacity
FeasibleSets(fs, capacity, m) ==
  { S \in SUBSET (1..m) : SetSum(fs, S, TRUE) <= capacity }

\* the largest total calories of a feasible subset (capacity >= 0)
Optimum(fs, capacity, m) ==
  LET vals == { SetSum(fs, S, FALSE) : S \in FeasibleSets(fs, capacity, m) }
  IN CHOOSE v \in vals : \A u \in vals : u <= v

OptimalSets(fs, capacity) ==
  { S \in FeasibleSets(fs, capacity, Len(fs)) :
      SetSum(fs, S, FALSE) = Optimum(fs, capacity, Len(fs)) }

\* the inclusion mask of S: bit j stands for item j (index j + 1)
RECURSIVE MaskOf(_)
MaskOf(S) ==
  IF S = {} THEN 0
  ELSE LET k == CHOOSE x \in S : TRUE IN 2 ^ (k - 1) + MaskOf(S \ {k})

\* the items of S in the order of fs
RECURSIVE Pick(_, _, _)
Pick(fs, S, k) ==
  IF k > Len(fs) THEN << >>
  ELSE (IF k \in S THEN << fs[k] >> ELSE << >>) \o Pick(fs, S, k + 1)

Descriptions(fv) == { fv[k].description : k \in 1..Len(fv) }

CaloriesOf(fv) == [k \in 1..Len(fv) |-> fv[k].foodCalories]

\* every element of fv is an item of fs, and none appears twice
Selection(fv, fs) ==
  /\ \A k \in 1..Len(fv) : \E m \in 1..Len(fs) : fv[k] = fs[m]
  /\ Cardinality(Descriptions(fv)) = Len(fv)

\* the traceback that also stops when step reaches 0
RECURSIVE EarlyStopWalk(_, _, _, _, _)
EarlyStopWalk(table, fs, r, c, acc) ==
  IF r = 0 \/ c = 0 THEN acc
  ELSE IF Cell(table, r, c) # Cell(table, r - 1, c)
       THEN EarlyStopWalk(table, fs, r - 1, c - fs[r].weight,
                          Append(acc, fs[r]))
       ELSE EarlyStopWalk(table, fs, r - 1, c, acc)

\* the first k items of src whose calories lie in lo..hi, in source order
FirstMatches(src, lo, hi, k) ==
  LET Match(f) == lo <= f.foodCalories /\ f.foodCalories <= hi
      m == SelectSeq(src, Match)
  IN SubSeq(m, 1, IF k < Len(m) THEN k ELSE Len(m))

ExhaustiveReturned == pc = "dyn_entry"
TableBuilt == pc = "dyn_trace" /\ i = Len(foods) /\ best = << >>
BothReturned == pc = "done"

----------------------------------------------------------------------------
(* Properties.                                                             *)

\* C1: for integer weights >= 1 and an integer capacity >= 0, the vector
\* returned by exhaustive_max_calories and the vector returned by
\* dynamic_max_calories on the same foods and capacity have equal total
\* calories.
C1_SolversAgree ==
  (BothReturned /\ total_weight >= 0) =>
    sum_food_vector(BestFoodVector).total_calories
      = sum_food_vector(best).total_calories

C1_Witness ==
  /\ BothReturned /\ total_weight >= 0
  /\ BestFoodVector # best
  /\ Len(best) >= 2
  /\ Len(best) < Len(foods)

\* C2: for a capacity >= 0, each solver's result has total weight (as summed
\* by sum_food_vector) at most the capacity and holds each item of foods at
\* most once.
C2_WeightFeasible ==
  (BothReturned /\ total_weight >= 0) =>
    /\ sum_food_vector(BestFoodVector).total_weight <= total_weight
    /\ sum_food_vector(best).total_weight <= total_weight
    /\ Selection(BestFoodVector, foods)
    /\ Selection(best, foods)

C2_Witness ==
  /\ BothReturned /\ total_weight > 0
  /\ Len(best) >= 2 /\ Len(BestFoodVector) >= 2
  /\ sum_food_vector(best).total_weight = total_weight
  /\ sum_food_vector(foods).total_weight > total_weight

\* C3: exhaustive_max_calories returns a selection of foods whose total
\* calories equal the largest total calories of any subset of foods with
\* total weight <= capacity, and the empty vector when no item fits or
\* capacity <= 0.
C3_ExhaustiveOptimal ==
  ExhaustiveReturned =>
    /\ Selection(BestFoodVector, foods)
    /\ total_weight >= 0 =>
         sum_food_vector(BestFoodVector).total_calories
           = Optimum(foods, total_weight, Len(foods))
    /\ (total_weight <= 0
        \/ \A k \in 1..Len(foods) : foods[k].weight > total_weight) =>
         BestFoodVector = << >>

C3_Witness ==
  /\ ExhaustiveReturned /\ total_weight > 0
  /\ Len(foods) = 3 /\ Len(BestFoodVector) = 2
  /\ BestFoodVector[1] = foods[2]
  /\ sum_food_vector(foods).total_weight > total_weight
  /\ sum_food_vector(BestFoodVector).total_calories
       = Optimum(foods, total_weight, Len(foods))

\* C4: for integer weights >= 1 and an integer capacity >= 0, the traceback
\* of dynamic_max_calories returns a vector whose total calories equal
\* T[N][capacity], reads only cells of the table, and returns the same
\* vector as the walk that also stops when step reaches 0.
C4_TracebackValue ==
  (BothReturned /\ total_weight >= 0) =>
    /\ ~oob
    /\ sum_food_vector(best).total_calories
         = Cell(T, Len(foods), total_weight)
    /\ best = EarlyStopWalk(T, foods, Len(foods), total_weight, << >>)

\* step reached 0 before the walk reached row 0
C4_Witness ==
  /\ BothReturned /\ total_weight > 0
  /\ step = 0
  /\ best # << >>
  /\ best[Len(best)].description > 1
  /\ sum_food_vector(best).total_calories = Cell(T, Len(foods), total_weight)

\* C5: for total_size > 0, filter_food_vector returns the first total_size
\* items of source, in source order, whose calories c satisfy
\* min_calories <= c <= max_calories (all of them when there are fewer); in
\* particular calories <<5, 50, 10, 200, 15>> with min 10, max 100 and
\* total_size 2 give <<50, 10>>.
C5_FilterFirstMatches ==
  (pc = "flt_done" /\ total_size > 0) =>
    /\ ~filtered.null
    /\ filtered.vec
         = FirstMatches(source, min_calories, max_calories, total_size)
    /\ (/\ CaloriesOf(source) = << 5, 50, 10, 200, 15 >>
        /\ min_calories = 10 /\ max_calories = 100 /\ total_size = 2) =>
         CaloriesOf(filtered.vec) = << 50, 10 >>

C5_Witness ==
  /\ pc = "flt_done"
  /\ CaloriesOf(source) = << 5, 50, 10, 200, 15 >>
  /\ min_calories = 10 /\ max_calories = 100 /\ total_size = 2
  /\ ~filtered.null
  /\ CaloriesOf(filtered.vec) = << 50, 10 >>

\* C6: filter_food_vector called with total_size <= 0 returns nullptr (not
\* a pointer to an empty vector) without visiting any item of source, and
\* no step of any call changes source.
C6_FilterRejects ==
  /\ []((pc = "flt_done" /\ total_size <= 0) =>
          (filtered = NullPtr /\ scanned = 0 /\ FilteredFoodVector = << >>))
  /\ [][source' = source]_vars

C6_Witness ==
  /\ pc = "flt_done" /\ total_size = 0
  /\ Len(source) > 0
  /\ \E k \in 1..Len(source) :
       InBand(source[k], min_calories, max_calories)
  /\ filtered = NullPtr /\ scanned = 0

\* C7: dynamic_max_calories called with a negative capacity is rejected at
\* the start of the call: no row of the table is built, the traceback is
\* not entered, and no cell outside the table is read.
C7_NegativeCapacityRejected ==
  total_weight < 0 =>
    /\ pc \notin {"dyn_rows", "dyn_trace", "dyn_crashed", "done"}
    /\ T = << >>
    /\ ~oob

\* C8: for every size n that exhaustive_max_calories accepts, the loop
\* bound 2^n is representable in int and bitSize holds it.
C8_BitSizeRepresentable ==
  pc = "exh_loop" =>
    /\ n <= IntBits - 2
    /\ bitSize = 2 ^ n

\* C9: among the feasible subsets with the largest total calories,
\* exhaustive_max_calories returns the one with the smallest inclusion mask;
\* in particular, of two items with equal calories that each fit alone but
\* not together, the earlier one is returned.
C9_SmallestMask ==
  (ExhaustiveReturned /\ total_weight >= 0) =>
    /\ \E S \in OptimalSets(foods, total_weight) :
         /\ \A R \in OptimalSets(foods, total_weight) : MaskOf(S) <= MaskOf(R)
         /\ BestFoodVector = Pick(foods, S, 1)
    /\ (/\ Len(foods) = 2
        /\ foods[1].foodCalories = foods[2].foodCalories
        /\ foods[1].foodCalories > 0
        /\ foods[1].weight <= total_weight
        /\ foods[2].weight <= total_weight
        /\ foods[1].weight + foods[2].weight > total_weight) =>
         BestFoodVector = << foods[1] >>

C9_Witness ==
  /\ ExhaustiveReturned
  /\ Len(foods) = 2
  /\ foods[1].foodCalories = foods[2].foodCalories
  /\ foods[1].foodCalories > 0
  /\ foods[1].weight <= total_weight
  /\ foods[2].weight <= total_weight
  /\ foods[1].weight + foods[2].weight > total_weight
  /\ BestFoodVector = << foods[1] >>

\* C10: after the table-building loop (integer weights >= 1, capacity
\* W >= 0), T[r][c] is the largest total calories of a subset of the first
\* r items with total weight <= c, for every r in 0..N and c in 0..W; T is
\* non-decreasing along each row and down each column.
C10_TableOptimal ==
  (TableBuilt /\ total_weight >= 0) =>
    /\ Len(T) = Len(foods) + 1
    /\ \A r \in 0..Len(foods) :
         /\ Len(T[r + 1]) = total_weight + 1
         /\ \A c \in 0..total_weight :
              /\ Cell(T, r, c) = Optimum(foods, c, r)
              /\ c > 0 => Cell(T, r, c - 1) <= Cell(T, r, c)
              /\ r > 0 => Cell(T, r - 1, c) <= Cell(T, r, c)

C10_Witness ==
  /\ TableBuilt /\ total_weight >= 2
  /\ Len(foods) >= 2
  /\ Cell(T, Len(foods), total_weight)
       > Cell(T, Len(foods) - 1, total_weight)
  /\ Cell(T, Len(foods) - 1, total_weight) > 0
  /\ Cell(T, Len(foods), total_weight)
       > Cell(T, Len(foods), total_weight - 1)

====
